---- MODULE Spec2Model ----
(***************************************************************************)
(* A model of pescador's stream multiplexers (src/pescador/mux.py):        *)
(* BaseMux and its policy variants PoissonMux, ShuffledMux, RoundRobinMux  *)
(* and ChainMux.                                                           *)
(*                                                                         *)
(* The mux object is the record self; its fields carry the names of the  *)
(* Python attributes.  numpy float arrays are functions from 0..len-1 to   *)
(* exact rationals <<num, den>> in lowest terms, so that normalisation     *)
(* (x / sum(x)) is computed rather than assumed.  Draws from the random    *)
(* source are nondeterministic choices over the outcomes with positive     *)
(* probability.  A method that draws is a set-valued operator: the set of  *)
(* the states (and return values) it can leave behind.                     *)
(***************************************************************************)
EXTENDS Integers, Sequences, FiniteSets, TLC

\* ------------------------------------------------------------------ bounds
MaxPool == 2      \* largest pool (len(streamers)) explored
MaxLen == 2       \* longest producer: items yielded per open
MaxPulls == 3     \* the caller asks for at most this many items per iterate()

MaxK == MaxPool                     \* k of a PoissonMux; it may exceed the pool
WeightValues == {0, 1, 2}           \* entries of an explicit weights vector

\* ------------------------------------------------------------ Python None
None == <<>>          \* None in an array- or float-valued attribute
NoneInt == 0 - 1      \* None in an integer-valued attribute or argument
Inf == 0 - 2          \* np.inf

\* --------------------------------------------------------- exact rationals
\* Euclid's algorithm
GCD[a \in Nat, b \in Nat] == IF b = 0 THEN a ELSE GCD[b, a % b]

\* num/den in lowest terms
Rat[num \in Nat, den \in Nat] ==
    IF num = 0 THEN <<0, 1>>
    ELSE <<num \div GCD[num, den], den \div GCD[num, den]>>
Q == Nat \X Nat
Zero == Rat[0, 1]
One == Rat[1, 1]
RAdd[a \in Q, b \in Q] == Rat[a[1] * b[2] + b[1] * a[2], a[2] * b[2]]
RDiv[a \in Q, b \in Q] == Rat[a[1] * b[2], a[2] * b[1]]
RPos(a) == a[1] > 0
RLess(a, b) == a[1] * b[2] < b[1] * a[2]
RMax[a \in Q, b \in Q] == IF RLess(a, b) THEN b ELSE a

\* numpy reductions over an array x with indices 0..len-1
Len0(x) == Cardinality(DOMAIN x)

RECURSIVE SumUpTo(_, _)
SumUpTo(x, i) == IF i < 0 THEN Zero ELSE RAdd[x[i], SumUpTo(x, i - 1)]
\* np.sum(x)
npSum(x) == SumUpTo(x, Len0(x) - 1)

RECURSIVE MaxUpTo(_, _)
MaxUpTo(x, i) == IF i = 0 THEN x[0] ELSE RMax[MaxUpTo(x, i - 1), x[i]]
\* np.max(x)
npMax(x) == MaxUpTo(x, Len0(x) - 1)

\* a test for a positive entry that always succeeds
AnyPositive_Always(x) == TRUE

\* (x > 0).any()
AnyPositive(x) == \E i \in DOMAIN x : RPos(x[i])
\* x.any() for a boolean mask
AnyTrue(x) == \E i \in DOMAIN x : x[i]
\* a normalisation that leaves x as it is
Normalized_Skip(x) == x

\* x /= np.sum(x)
Normalized(x) == [i \in DOMAIN x |-> RDiv[x[i], npSum(x)]]

\* rng.choice(len(p), p=p): an index of positive probability
Choice(p) == {i \in DOMAIN p : RPos(p[i])}

\* --------------------------------------------------------------- producers
\* A pool member (pescador.core.Streamer): every open yields the same len
\* items and then signals end-of-stream, or, when fails, raises an error
\* other than StopIteration in place of end-of-stream.
Producer == [len : 0..MaxLen, fails : BOOLEAN]

\* streams_[i] of a slot that holds no iterator.  id tells an iterator
\* object from the one it replaces in its slot.
NoStream == [src |-> NoneInt, pos |-> 0, end |-> 0, raises |-> FALSE, id |-> 0]

\* Streamer.iterate(max_iter=bound): a fresh iterator over member m that
\* yields at most bound items; the producer's own end is reached (and its
\* error, if any, raised) only when the bound does not cut it short.
StreamerIterate(streamers, m, bound) ==
    LET cut == bound # NoneInt /\ bound < streamers[m].len
    IN [src |-> m, pos |-> 0,
        end |-> IF cut THEN bound ELSE streamers[m].len,
        raises |-> streamers[m].fails /\ ~cut, id |-> 0]

\* ------------------------------------------------------------ construction
PoissonModes == {"with_replacement", "single_active", "exhaustive"}
ChainModes == {"exhaustive", "with_replacement"}

\* BaseMux.deactivate with the slots' iterators left in place
BaseMux_deactivate_KeepStreams(self) ==
    [self EXCEPT !.stream_idxs_ = None,
                 !.stream_counts_ = None,
                 !.stream_weights_ = None,
                 !.weight_norm_ = None]

\* BaseMux.deactivate that discards the distribution and the mask as well
BaseMux_deactivate_DiscardAll(self) ==
    [self EXCEPT !.streams_ = None,
                 !.stream_idxs_ = None,
                 !.stream_counts_ = None,
                 !.stream_weights_ = None,
                 !.weight_norm_ = None,
                 !.distribution_ = None,
                 !.valid_streams_ = None]

\* BaseMux.deactivate: reset the mux state
BaseMux_deactivate(self) ==
    [self EXCEPT !.streams_ = None,
                 !.stream_idxs_ = None,
                 !.stream_counts_ = None,
                 !.stream_weights_ = None,
                 !.weight_norm_ = None]

\* RoundRobinMux.deactivate and ChainMux.deactivate
Cursor_deactivate(self) ==
    [BaseMux_deactivate(self) EXCEPT !.active_index_ = NoneInt]

\* self.deactivate(), dispatched on the class
deactivate(self) ==
    IF self.cls \in {"RoundRobinMux", "ChainMux"}
    THEN Cursor_deactivate(self)
    ELSE BaseMux_deactivate(self)

\* The attributes of an object before __init__ has set any of them.
\* opens_ and reopened_ are not attributes of the program.  They record, per
\* pool member, how many iterators the current activation has created over
\* it (0, 1 or "2 or more"), and whether it has created one while the
\* member's valid_streams_ entry was already False.
Blank ==
    [cls |-> "None", streamers |-> None, n_streams |-> 0, k |-> 0,
     prune_empty_streams |-> FALSE, weights |-> None, mode |-> "None",
     rate |-> "None", distribution_ |-> None, valid_streams_ |-> None,
     streams_ |-> None, stream_idxs_ |-> None, stream_counts_ |-> None,
     stream_weights_ |-> None, weight_norm_ |-> None,
     active_index_ |-> NoneInt, opens_ |-> None, reopened_ |-> None]

\* The result of a constructor: the object, or the PescadorError it raised.
Raised(msg) == [error |-> msg, self |-> Blank]
Built(self) == [error |-> "", self |-> self]

\* BaseMux.__init__(streamers, k, weights, random_state, prune_empty_streams)
\* on an object whose subclass attributes are already in obj
BaseMux_init(obj, streamers, k, weights, random_state, prune_empty_streams) ==
    LET n_streams == Len0(streamers)
        s0 == deactivate([obj EXCEPT !.streamers = streamers,
                                     !.n_streams = n_streams,
                                     !.k = k,
                                     !.prune_empty_streams = prune_empty_streams,
                                     !.weights = weights])
        w1 == IF weights = None
              THEN [i \in 0..(n_streams - 1) |-> Rat[1, n_streams]]
              ELSE [i \in DOMAIN weights |-> Rat[weights[i], 1]]
    IN IF random_state \notin {"None", "int", "RandomState"}
       THEN Raised("Invalid random_state")
       ELSE IF n_streams = 0
       THEN Raised("Cannot mux an empty collection")
       ELSE IF Len0(w1) # n_streams
       THEN Raised("weights must be the same length as streamers")
       ELSE IF ~AnyPositive(w1)
       THEN Raised("weights must contain at least one positive value")
       ELSE Built([s0 EXCEPT !.weights = Normalized(w1)])

\* PoissonMux.__init__
PoissonMux_init(a) ==
    IF a.mode \notin PoissonModes
    THEN Raised("not a valid mode for PoissonMux")
    ELSE BaseMux_init([Blank EXCEPT !.cls = a.cls, !.mode = a.mode,
                                    !.rate = a.rate],
                      a.streamers, a.k, a.weights, a.random_state,
                      a.prune_empty_streams)

\* ShuffledMux.__init__: a PoissonMux with k = len(streamers), single_active
ShuffledMux_init(a) ==
    PoissonMux_init([a EXCEPT !.k = Len0(a.streamers),
                              !.mode = "single_active"])

\* RoundRobinMux.__init__: k = len(streamers), uniform weights
RoundRobinMux_init(a) ==
    BaseMux_init([Blank EXCEPT !.cls = a.cls],
                 a.streamers, Len0(a.streamers), None, a.random_state,
                 a.prune_empty_streams)

\* ChainMux.__init__: k = 1, uniform weights; mode is stored afterwards,
\* unchecked
ChainMux_init(a) ==
    LET r == BaseMux_init([Blank EXCEPT !.cls = a.cls],
                          a.streamers, 1, None, a.random_state,
                          a.prune_empty_streams)
    IN IF r.error # "" THEN r
       ELSE Built([r.self EXCEPT !.mode = a.mode])

\* cls(**a)
New(a) ==
    CASE a.cls = "PoissonMux" -> PoissonMux_init(a)
      [] a.cls = "ShuffledMux" -> ShuffledMux_init(a)
      [] a.cls = "RoundRobinMux" -> RoundRobinMux_init(a)
      [] a.cls = "ChainMux" -> ChainMux_init(a)

\* --------------------------------------------------------- policy methods
Arange(len) == 0..(len - 1)
IsPoisson(self) == self.cls \in {"PoissonMux", "ShuffledMux"}

\* a budget of rng.poisson(rate) items, which can be 0
_n_samples_to_stream_FromZero(self) ==
    IF IsPoisson(self) /\ self.rate # "None"
    THEN 0..MaxLen
    ELSE {NoneInt}

\* BaseMux._n_samples_to_stream and PoissonMux._n_samples_to_stream: the
\* values it can return.  1 + rng.poisson(rate) is any integer >= 1; a
\* budget of MaxLen or more cuts no producer short, so MaxLen stands for all
\* of them.
_n_samples_to_stream(self) ==
    IF IsPoisson(self) /\ self.rate # "None"
    THEN 1..MaxLen
    ELSE {NoneInt}

Saturate(c) == IF c < 2 THEN c + 1 ELSE c

\* BaseMux._activate_stream(idx): instantiate a new streamer over pool
\* member idx; the results (self, streamer, weight) it can have.  The two
\* length checks cannot fail: __init__ has checked len(weights) and
\* distribution_ is built with n_streams entries.
BaseMux_activate_stream(self, idx) ==
    {[self |-> [self EXCEPT !.opens_[idx] = Saturate(@),
                            !.reopened_[idx] = @ \/ ~self.valid_streams_[idx]],
      streamer |-> StreamerIterate(self.streamers, idx, b),
      weight |-> self.weights[idx]] : b \in _n_samples_to_stream(self)}

\* an opened member that keeps its distribution entry
ZeroOut_Keep(self, idx) == self

\* "zero this one out" and "correct the distribution"
ZeroOut(self, idx) ==
    LET d == [self.distribution_ EXCEPT ![idx] = Zero]
    IN [self EXCEPT !.distribution_ =
            IF AnyPositive(d) THEN Normalized(d) ELSE d]

\* PoissonMux._activate_stream that zeroes the member out in every mode
PoissonMux_activate_stream_AlwaysZero(self, idx) ==
    {[r EXCEPT !.self = ZeroOut(r.self, idx)] :
        r \in BaseMux_activate_stream(self, idx)}

\* PoissonMux._activate_stream that leaves the distribution alone
PoissonMux_activate_stream_NoZero(self, idx) ==
    BaseMux_activate_stream(self, idx)

\* PoissonMux._activate_stream(idx)
PoissonMux_activate_stream(self, idx) ==
    {IF r.self.mode # "with_replacement"
     THEN [r EXCEPT !.self = ZeroOut(r.self, idx)]
     ELSE r : r \in BaseMux_activate_stream(self, idx)}

\* ChainMux._activate_stream that zeroes the member out in every mode
ChainMux_activate_stream_AlwaysZero(self, idx) ==
    {[r EXCEPT !.self = ZeroOut(r.self, idx)] :
        r \in BaseMux_activate_stream(self, idx)}

\* ChainMux._activate_stream(idx)
ChainMux_activate_stream(self, idx) ==
    {IF r.self.mode # "with_replacement"
     THEN [r EXCEPT !.self = ZeroOut(r.self, idx)]
     ELSE r : r \in BaseMux_activate_stream(self, idx)}

\* self._activate_stream(idx)
_activate_stream(self, idx) ==
    CASE IsPoisson(self) -> PoissonMux_activate_stream(self, idx)
      [] self.cls = "ChainMux" -> ChainMux_activate_stream(self, idx)
      [] OTHER -> BaseMux_activate_stream(self, idx)

\* PoissonMux._new_stream_index: a random pool index drawn from distribution_
PoissonMux_new_stream_index(self, idx) ==
    {[self |-> self, ret |-> m] : m \in Choice(self.distribution_)}

\* RoundRobinMux._new_stream_index that returns the first pool index
RoundRobinMux_new_stream_index_First(self, idx) ==
    {[self |-> self, ret |-> 0]}

\* RoundRobinMux._new_stream_index: the slot's own index
RoundRobinMux_new_stream_index(self, idx) ==
    {[self |-> self, ret |-> idx]}

\* ChainMux._new_stream_index with a cursor that stays where it is
ChainMux_new_stream_index_Stuck(self, idx) ==
    LET a == IF self.active_index_ = NoneInt THEN 0 ELSE self.active_index_
    IN {[self |-> [self EXCEPT !.active_index_ = a], ret |-> a]}

\* ChainMux._new_stream_index: advance the cursor, wrapping at the pool's end
ChainMux_new_stream_index(self, idx) ==
    LET a == IF self.active_index_ = NoneInt THEN 0
             ELSE self.active_index_ + 1
        b == IF a >= Len0(self.streamers) THEN 0 ELSE a
    IN {[self |-> [self EXCEPT !.active_index_ = b], ret |-> b]}

\* self._new_stream_index(idx)
_new_stream_index(self, idx) ==
    CASE IsPoisson(self) -> PoissonMux_new_stream_index(self, idx)
      [] self.cls = "RoundRobinMux" -> RoundRobinMux_new_stream_index(self, idx)
      [] self.cls = "ChainMux" -> ChainMux_new_stream_index(self, idx)

\* PoissonMux._next_sample_index that draws among all k slots, whatever
\* their weights
PoissonMux_next_sample_index_AnySlot(self) ==
    {[self |-> self, ret |-> i] : i \in DOMAIN self.stream_weights_}

\* PoissonMux._next_sample_index: a random slot drawn by slot weight
PoissonMux_next_sample_index(self) ==
    {[self |-> self, ret |-> i] :
        i \in Choice([j \in DOMAIN self.stream_weights_ |->
                         RDiv[self.stream_weights_[j], self.weight_norm_]])}

\* RoundRobinMux._next_sample_index with a cursor that advances by two
RoundRobinMux_next_sample_index_Skip(self) ==
    LET a == self.active_index_ + 2
    IN {[self |-> [self EXCEPT !.active_index_ =
                       IF a >= Len0(self.streamers) THEN 0 ELSE a],
         ret |-> self.active_index_]}

\* RoundRobinMux._next_sample_index: the cursor, which then advances
RoundRobinMux_next_sample_index(self) ==
    LET a == self.active_index_ + 1
    IN {[self |-> [self EXCEPT !.active_index_ =
                       IF a >= Len0(self.streamers) THEN 0 ELSE a],
         ret |-> self.active_index_]}

\* ChainMux._next_sample_index: k = 1, always slot 0
ChainMux_next_sample_index(self) ==
    {[self |-> self, ret |-> 0]}

\* self._next_sample_index()
_next_sample_index(self) ==
    CASE IsPoisson(self) -> PoissonMux_next_sample_index(self)
      [] self.cls = "RoundRobinMux" -> RoundRobinMux_next_sample_index(self)
      [] self.cls = "ChainMux" -> ChainMux_next_sample_index(self)

\* PoissonMux._on_stream_exhausted that revives nothing
PoissonMux_on_stream_exhausted_NoRevival(self, idx) == self

\* PoissonMux._on_stream_exhausted that revives with 1.0 whatever the
\* distribution holds
PoissonMux_on_stream_exhausted_ReviveOne(self, idx) ==
    IF self.mode = "single_active"
    THEN [self EXCEPT !.distribution_[self.stream_idxs_[idx]] = One]
    ELSE self

\* PoissonMux._on_stream_exhausted(idx): single_active revives the member
\* of the exhausted slot with the current maximum of the distribution
PoissonMux_on_stream_exhausted(self, idx) ==
    IF self.mode = "single_active"
    THEN IF \E i \in DOMAIN self.distribution_ : self.distribution_[i] # Zero
         THEN [self EXCEPT !.distribution_[self.stream_idxs_[idx]] =
                               npMax(self.distribution_)]
         ELSE [self EXCEPT !.distribution_[self.stream_idxs_[idx]] = One]
    ELSE self

\* self._on_stream_exhausted(idx); BaseMux's does nothing
_on_stream_exhausted(self, idx) ==
    IF IsPoisson(self) THEN PoissonMux_on_stream_exhausted(self, idx)
    ELSE self

\* BaseMux._new_stream(idx): choose a pool member for slot idx, open it,
\* reset the slot's count; the states it can leave
_new_stream(self, idx) ==
    UNION {
      {[a.self EXCEPT !.streams_[idx] =
                          [a.streamer EXCEPT !.id = 1 - a.self.streams_[idx].id],
                      !.stream_weights_[idx] = a.weight,
                      !.stream_counts_[idx] = 0] :
          a \in _activate_stream([r.self EXCEPT !.stream_idxs_[idx] = r.ret],
                                 r.ret)} :
      r \in _new_stream_index(self, idx)}

\* ------------------------------------------------------------- activation
\* "Initialize each active stream": slots idx, idx+1, ... k-1 in order,
\* stopping when the distribution has no positive entry left
RECURSIVE FillSlots(_, _)
FillSlots(self, idx) ==
    IF idx >= self.k \/ ~AnyPositive(self.distribution_)
    THEN {self}
    ELSE UNION {FillSlots(s, idx + 1) : s \in _new_stream(self, idx)}

\* BaseMux.activate that keeps the distribution and the mask of an earlier
\* activation
BaseMux_activate_KeepMask(self) ==
    LET s0 == [self EXCEPT
                 !.distribution_ =
                     IF @ # None THEN @
                     ELSE [i \in Arange(self.n_streams) |-> Rat[1, self.n_streams]],
                 !.valid_streams_ =
                     IF @ # None THEN @
                     ELSE [i \in Arange(self.n_streams) |-> TRUE],
                 !.streams_ = [i \in Arange(self.k) |-> NoStream],
                 !.stream_weights_ = [i \in Arange(self.k) |-> Zero],
                 !.stream_counts_ = [i \in Arange(self.k) |-> 0],
                 !.stream_idxs_ = [i \in Arange(self.k) |-> 0],
                 !.opens_ = [i \in Arange(self.n_streams) |-> 0],
                 !.reopened_ = [i \in Arange(self.n_streams) |-> FALSE]]
    IN {[s EXCEPT !.weight_norm_ = npSum(s.stream_weights_)] :
           s \in FillSlots(s0, 0)}

\* BaseMux.activate
BaseMux_activate(self) ==
    LET s0 == [self EXCEPT
                 !.distribution_ =
                     [i \in Arange(self.n_streams) |-> Rat[1, self.n_streams]],
                 !.valid_streams_ = [i \in Arange(self.n_streams) |-> TRUE],
                 !.streams_ = [i \in Arange(self.k) |-> NoStream],
                 !.stream_weights_ = [i \in Arange(self.k) |-> Zero],
                 !.stream_counts_ = [i \in Arange(self.k) |-> 0],
                 !.stream_idxs_ = [i \in Arange(self.k) |-> 0],
                 !.opens_ = [i \in Arange(self.n_streams) |-> 0],
                 !.reopened_ = [i \in Arange(self.n_streams) |-> FALSE]]
    IN {[s EXCEPT !.weight_norm_ = npSum(s.stream_weights_)] :
           s \in FillSlots(s0, 0)}

\* RoundRobinMux.activate with the cursor starting at the last slot
RoundRobinMux_activate_StartAtLast(self) ==
    {[s EXCEPT !.active_index_ = self.n_streams - 1] :
        s \in BaseMux_activate(self)}

\* RoundRobinMux.activate: the cursor starts at 0
RoundRobinMux_activate(self) ==
    {[s EXCEPT !.active_index_ = 0] : s \in BaseMux_activate(self)}

\* ChainMux.activate: the cursor starts unset
ChainMux_activate(self) ==
    BaseMux_activate([self EXCEPT !.active_index_ = NoneInt])

\* self.activate()
activate(self) ==
    CASE self.cls = "RoundRobinMux" -> RoundRobinMux_activate(self)
      [] self.cls = "ChainMux" -> ChainMux_activate(self)
      [] OTHER -> BaseMux_activate(self)

\* -------------------------------------------------------------- iteration
\* pruning of every slot that reaches its end, whatever it has produced
Prune_AnyCount(self, idx) ==
    IF self.prune_empty_streams
    THEN [self EXCEPT !.distribution_[self.stream_idxs_[idx]] = Zero,
                      !.valid_streams_[self.stream_idxs_[idx]] = FALSE]
    ELSE self

\* iterate, "except StopIteration": pruning of a slot that produced nothing
Prune(self, idx) ==
    IF self.prune_empty_streams /\ self.stream_counts_[idx] = 0
    THEN [self EXCEPT !.distribution_[self.stream_idxs_[idx]] = Zero,
                      !.valid_streams_[self.stream_idxs_[idx]] = FALSE]
    ELSE self

\* an exhausted slot that is retired whatever the distribution holds
Replace_Retire(self, idx) ==
    {[self EXCEPT !.stream_weights_[idx] = Zero]}

\* the refill without the normalisation of the distribution
Replace_NoNormalize(self, idx) ==
    IF AnyPositive(self.distribution_)
    THEN _new_stream(self, idx)
    ELSE {[self EXCEPT !.stream_weights_[idx] = Zero]}

\* iterate, "except StopIteration": refill the slot while the distribution
\* has mass, retire it otherwise
Replace(self, idx) ==
    IF AnyPositive(self.distribution_)
    THEN _new_stream([self EXCEPT !.distribution_ = Normalized(@)], idx)
    ELSE {[self EXCEPT !.stream_weights_[idx] = Zero]}

\* the "except StopIteration" branch without its last line, the update of
\* weight_norm_
StreamExhausted_StaleNorm(self, idx) ==
    Replace(_on_stream_exhausted(Prune(self, idx), idx), idx)

\* iterate, the whole "except StopIteration" branch for slot idx
StreamExhausted(self, idx) ==
    {[s EXCEPT !.weight_norm_ = npSum(s.stream_weights_)] :
        s \in Replace(_on_stream_exhausted(Prune(self, idx), idx), idx)}

\* n <= max_iter in place of n < max_iter
Less_OrEqual(n, max_iter) == max_iter = Inf \/ n <= max_iter

\* n < max_iter, with max_iter possibly np.inf
Less(n, max_iter) == max_iter = Inf \/ n < max_iter

\* ------------------------------------------------- the legacy Mux (< 2.0)
\* A Mux object carries the attributes of a PoissonMux, with the flags
\* with_replacement and revive in place of mode.
MuxFlags == {"with_replacement", "revive"}

\* Mux.__init__(streamers, k, rate, weights, with_replacement,
\* prune_empty_streams, revive, random_state), without deprecated keywords
Mux_init(a) ==
    LET n_streams == Len0(a.streamers)
        w1 == IF a.weights = None
              THEN [i \in 0..(n_streams - 1) |-> Rat[1, n_streams]]
              ELSE [i \in DOMAIN a.weights |-> Rat[a.weights[i], 1]]
        obj == [f \in DOMAIN Blank \cup MuxFlags |->
                   CASE f = "cls" -> "Mux"
                     [] f = "streamers" -> a.streamers
                     [] f = "n_streams" -> n_streams
                     [] f = "k" -> a.k
                     [] f = "rate" -> a.rate
                     [] f = "weights" -> Normalized(w1)
                     [] f = "with_replacement" -> a.with_replacement
                     [] f = "prune_empty_streams" -> a.prune_empty_streams
                     [] f = "revive" -> a.revive
                     [] OTHER -> Blank[f]]
    IN IF a.random_state \notin {"None", "int", "RandomState"}
       THEN Raised("Invalid random_state")
       ELSE IF n_streams = 0
       THEN Raised("Cannot mux an empty collection")
       ELSE IF Len0(w1) # n_streams
       THEN Raised("weights must be the same length as streamers")
       ELSE IF ~AnyPositive(w1)
       THEN Raised("weights must contain at least one positive value")
       ELSE Built(obj)

\* Mux.deactivate
Mux_deactivate(self) ==
    [self EXCEPT !.streams_ = None,
                 !.stream_weights_ = None,
                 !.stream_counts_ = None,
                 !.stream_idxs_ = None,
                 !.weight_norm_ = None]

\* Mux._new_stream without the zeroing of the opened member
Mux_new_stream_NoZero(self, idx) ==
    {[self |-> [self EXCEPT !.opens_[idx] = Saturate(@),
                            !.reopened_[idx] = @ \/ ~self.valid_streams_[idx]],
      streamer |-> StreamerIterate(self.streamers, idx, n_stream),
      weight |-> self.weights[idx]] :
        n_stream \in IF self.rate # "None" THEN 1..MaxLen ELSE {NoneInt}}

\* Mux._new_stream(idx): open pool member idx; the results (self, streamer,
\* weight) it can have.  n_stream = 1 + rng.poisson(rate) is drawn first,
\* then the member is zeroed out unless sampling with replacement.
Mux_new_stream(self, idx) ==
    {LET s1 == [self EXCEPT !.opens_[idx] = Saturate(@),
                            !.reopened_[idx] = @ \/ ~self.valid_streams_[idx]]
         d == [s1.distribution_ EXCEPT ![idx] = Zero]
     IN [self |-> IF ~self.with_replacement
                  THEN [s1 EXCEPT !.distribution_ =
                           IF AnyPositive(d) THEN Normalized(d) ELSE d]
                  ELSE s1,
         streamer |-> StreamerIterate(self.streamers, idx, n_stream),
         weight |-> self.weights[idx]] :
        n_stream \in IF self.rate # "None" THEN 1..MaxLen ELSE {NoneInt}}

\* "stream_idxs_[idx] = rng.choice(...); streams_[idx], stream_weights_[idx]
\* = _new_stream(stream_idxs_[idx])" of Mux.activate and Mux.iterate
Mux_fill(self, idx) ==
    UNION {
      {[a.self EXCEPT !.streams_[idx] =
                          [a.streamer EXCEPT !.id = 1 - a.self.streams_[idx].id],
                      !.stream_weights_[idx] = a.weight] :
          a \in Mux_new_stream([self EXCEPT !.stream_idxs_[idx] = m], m)} :
      m \in Choice(self.distribution_)}

\* the loop of Mux.activate over slots idx, idx+1, ... k-1
RECURSIVE Mux_FillSlots(_, _)
Mux_FillSlots(self, idx) ==
    IF idx >= self.k \/ ~AnyPositive(self.distribution_)
    THEN {self}
    ELSE UNION {Mux_FillSlots(s, idx + 1) : s \in Mux_fill(self, idx)}

\* Mux.activate
Mux_activate(self) ==
    LET s0 == [self EXCEPT
                 !.distribution_ =
                     [i \in Arange(self.n_streams) |-> Rat[1, self.n_streams]],
                 !.valid_streams_ = [i \in Arange(self.n_streams) |-> TRUE],
                 !.streams_ = [i \in Arange(self.k) |-> NoStream],
                 !.stream_weights_ = [i \in Arange(self.k) |-> Zero],
                 !.stream_counts_ = [i \in Arange(self.k) |-> 0],
                 !.stream_idxs_ = [i \in Arange(self.k) |-> 0],
                 !.opens_ = [i \in Arange(self.n_streams) |-> 0],
                 !.reopened_ = [i \in Arange(self.n_streams) |-> FALSE]]
    IN {[s EXCEPT !.weight_norm_ = npSum(s.stream_weights_)] :
           s \in Mux_FillSlots(s0, 0)}

\* Mux.iterate: the slot to sample, rng.choice(k, p=stream_weights_ /
\* weight_norm_)
Mux_next_sample_index(self) ==
    Choice([j \in DOMAIN self.stream_weights_ |->
               RDiv[self.stream_weights_[j], self.weight_norm_]])

\* Mux.iterate: the whole "except StopIteration" branch for slot idx
Mux_StreamExhausted(self, idx) ==
    LET m == self.stream_idxs_[idx]
        pruned == IF self.prune_empty_streams /\ self.stream_counts_[idx] = 0
                  THEN [self EXCEPT !.distribution_[m] = Zero,
                                    !.valid_streams_[m] = FALSE]
                  ELSE self
        revived == IF pruned.revive /\ ~pruned.with_replacement
                   THEN IF \E i \in DOMAIN pruned.distribution_ :
                              pruned.distribution_[i] # Zero
                        THEN [pruned EXCEPT !.distribution_[m] =
                                                npMax(pruned.distribution_)]
                        ELSE [pruned EXCEPT !.distribution_[m] = One]
                   ELSE pruned
        replaced == IF AnyPositive(revived.distribution_)
                    THEN {[s EXCEPT !.stream_counts_[idx] = 0] :
                             s \in Mux_fill([revived EXCEPT !.distribution_ =
                                                 Normalized(@)], idx)}
                    ELSE {[revived EXCEPT !.stream_weights_[idx] = Zero]}
    IN {[s EXCEPT !.weight_norm_ = npSum(s.stream_weights_)] : s \in replaced}

\* ------------------------------------------------------------------ state
VARIABLES
    args,       \* the arguments of a constructor call that raised
    self,       \* the mux object
    pc,         \* where the caller and the generator of iterate() stand
    max_iter,   \* iterate's max_iter
    n,          \* iterate's n: the items counted so far
    idx,        \* iterate's idx: the slot of the pending yield
    item,       \* the item handed to the caller by the pending yield
    raised,     \* the exception the last call raised to the caller, or ""
    pulls,      \* the most items this caller asks of one iterate()
    scope       \* the constructor calls this caller chooses from

vars == <<args, self, pc, max_iter, n, idx, item, raised, pulls, scope>>

NoItem == <<NoneInt, NoneInt>>

\* Pools of 1..size producers, at most one of which raises
Pools(size) ==
    UNION {{p \in [Arange(len) -> Producer] :
               Cardinality({i \in Arange(len) : p[i].fails}) <= 1} :
           len \in 1..size}

\* The weights arguments tried with a pool of len members: None, every
\* vector over WeightValues of that length, and one that is too long
WeightArgs(len) ==
    {None} \cup [Arange(len) -> WeightValues] \cup {[i \in Arange(len + 1) |-> 1]}

RandomStates == {"None", "int", "RandomState", "str"}

\* The constructor calls explored, valid and invalid.  An argument a class
\* does not take is written None.
PoissonCalls ==
    UNION {[cls : {"PoissonMux"}, streamers : {p}, k : 1..MaxK,
            rate : {"None", "positive"}, weights : WeightArgs(Len0(p)),
            mode : PoissonModes \cup {"bogus"},
            prune_empty_streams : BOOLEAN, random_state : RandomStates] :
           p \in Pools(MaxPool) \cup {<<>>}}
ShuffledCalls ==
    UNION {[cls : {"ShuffledMux"}, streamers : {p}, k : {NoneInt},
            rate : {"None", "positive"}, weights : WeightArgs(Len0(p)),
            mode : {"None"},
            prune_empty_streams : BOOLEAN, random_state : RandomStates] :
           p \in Pools(MaxPool) \cup {<<>>}}
RoundRobinCalls ==
    [cls : {"RoundRobinMux"}, streamers : Pools(MaxPool) \cup {<<>>},
     k : {NoneInt}, rate : {"None"}, weights : {None}, mode : {"None"},
     prune_empty_streams : BOOLEAN, random_state : RandomStates]
ChainCalls ==
    [cls : {"ChainMux"}, streamers : Pools(MaxPool) \cup {<<>>},
     k : {NoneInt}, rate : {"None"}, weights : {None},
     mode : ChainModes \cup {"bogus"},
     prune_empty_streams : BOOLEAN, random_state : RandomStates]

\* PoissonMux over a pool of MaxPool + 1 producers of at most one item, with
\* default weights and no rate: calls in which a distribution with two
\* unequal positive entries, or a maximum below 1, meets an exhausted slot
WidePools ==
    {p \in [Arange(MaxPool + 1) -> [len : 0..1, fails : BOOLEAN]] :
        Cardinality({i \in Arange(MaxPool + 1) : p[i].fails}) <= 1}
WideCalls ==
    [cls : {"PoissonMux"}, streamers : WidePools, k : 1..MaxK,
     rate : {"None"}, weights : {None}, mode : PoissonModes,
     prune_empty_streams : BOOLEAN, random_state : {"None"}]

Calls ==
    CASE scope = "RoundRobinMux" -> RoundRobinCalls
      [] scope = "WidePoissonMux" -> WideCalls
      [] scope = "ChainMux" -> ChainCalls
      [] scope = "PoissonMux" -> PoissonCalls \cup ShuffledCalls
      [] OTHER -> PoissonCalls \cup ShuffledCalls \cup RoundRobinCalls
                      \cup ChainCalls

InitWith(classes, patience) ==
    /\ scope = classes
    /\ pulls = patience
    /\ args = None
    /\ self = Blank
    /\ pc = "new"
    /\ max_iter = NoneInt
    /\ n = 0
    /\ idx = NoneInt
    /\ item = NoItem
    /\ raised = ""

Init == InitWith("any", MaxPulls)

\* ---------------------------------------------------------------- actions
frame == <<max_iter, n, idx, item>>

\* mux = cls(...): the object, or a PescadorError
Construct ==
    /\ pc = "new"
    /\ \E a \in Calls :
          LET r == New(a)
          IN /\ self' = r.self
             /\ raised' = IF r.error = "" THEN "" ELSE "PescadorError"
             /\ pc' = IF r.error = "" THEN "ready" ELSE "config_error"
             /\ args' = IF r.error = "" THEN None ELSE a
    /\ UNCHANGED <<frame, pulls, scope>>

active == self.streams_ # None

\* core.StreamActivator, the context manager of iterate's with-block:
\* activate on entry, deactivate on every exit
StreamActivator_enter(s) == activate(s)
StreamActivator_exit(s) == deactivate(s)

\* leaving iterate without the StreamActivator's exit
Leave_NoDeactivate(s, to, exc) ==
    /\ self' = s
    /\ pc' = to
    /\ raised' = exc
    /\ max_iter' = NoneInt
    /\ n' = 0
    /\ idx' = NoneInt
    /\ item' = NoItem

\* The with-block of iterate is left, by the end of the loop, a break, an
\* exception or the generator's close: the mux is deactivated and the
\* generator's frame is gone
Leave(s, to, exc) ==
    /\ self' = StreamActivator_exit(s)
    /\ pc' = to
    /\ raised' = exc
    /\ max_iter' = NoneInt
    /\ n' = 0
    /\ idx' = NoneInt
    /\ item' = NoItem

\* iterate(max_iter=m) and the first next(): max_iter is resolved, the
\* StreamActivator activates the mux, n = 0
Start ==
    /\ pc \in {"ready", "done", "closed", "failed"}
    /\ \E m \in {NoneInt} \cup 0..(pulls - 1), s \in StreamActivator_enter(self) :
          /\ max_iter' = IF m = NoneInt THEN Inf ELSE m
          /\ self' = s
    /\ n' = 0
    /\ idx' = NoneInt
    /\ item' = NoItem
    /\ pc' = "loop"
    /\ raised' = ""
    /\ UNCHANGED <<args, pulls, scope>>

\* the while condition
LoopCond == Less(n, max_iter) /\ RPos(self.weight_norm_)

\* the while condition fails: the generator returns
Exit ==
    /\ pc = "loop"
    /\ ~LoopCond
    /\ Leave(self, "done", "")
    /\ UNCHANGED <<args, pulls, scope>>

\* "if not self.valid_streams_.any(): break", at the end of the loop body
\* that leaves n at count
EndOfBody(s, count) ==
    IF ~AnyTrue(s.valid_streams_)
    THEN Leave(s, "done", "")
    ELSE /\ self' = s
         /\ pc' = "loop"
         /\ n' = count
         /\ idx' = NoneInt
         /\ item' = NoItem
         /\ UNCHANGED <<max_iter, raised>>

\* one pass of the loop body in which the chosen slot yields an item; the
\* generator is suspended at the yield
PullItem ==
    /\ pc = "loop"
    /\ LoopCond
    /\ \E r \in _next_sample_index(self) :
          LET it == r.self.streams_[r.ret]
          IN /\ it.pos < it.end
             /\ self' = [r.self EXCEPT !.streams_[r.ret].pos = @ + 1]
             /\ idx' = r.ret
             /\ item' = <<it.src, it.pos>>
    /\ pc' = "yielded"
    /\ UNCHANGED <<args, max_iter, n, raised, pulls, scope>>

\* the caller asks for the next item: the generator resumes after the
\* yield, counts the sample and finishes the loop body
Resume ==
    /\ pc = "yielded"
    /\ n + 1 < pulls
    /\ EndOfBody([self EXCEPT !.stream_counts_[idx] = @ + 1], n + 1)
    /\ UNCHANGED <<args, pulls, scope>>

\* one pass of the loop body in which the chosen slot's iterator signals
\* StopIteration
PullExhausted ==
    /\ pc = "loop"
    /\ LoopCond
    /\ \E r \in _next_sample_index(self) :
          LET it == r.self.streams_[r.ret]
          IN /\ it # NoStream
             /\ it.pos >= it.end
             /\ ~it.raises
             /\ \E s \in StreamExhausted(r.self, r.ret) : EndOfBody(s, n)
    /\ UNCHANGED <<args, pulls, scope>>

\* one pass of the loop body in which advancing the chosen slot raises
\* something else than StopIteration: the producer's error, or the
\* TypeError of advancing None
PullError ==
    /\ pc = "loop"
    /\ LoopCond
    /\ \E r \in _next_sample_index(self) :
          LET it == r.self.streams_[r.ret]
          IN /\ \/ it = NoStream
                \/ it.pos >= it.end /\ it.raises
             /\ Leave(r.self, "failed",
                      IF it = NoStream THEN "TypeError" ELSE "ProducerError")
    /\ UNCHANGED <<args, pulls, scope>>

\* the caller closes (or drops) the generator suspended at a yield
Close ==
    /\ pc = "yielded"
    /\ Leave(self, "closed", "")
    /\ UNCHANGED <<args, pulls, scope>>

Next ==
    \/ Construct
    \/ Start
    \/ Exit
    \/ PullItem
    \/ Resume
    \/ PullExhausted
    \/ PullError
    \/ Close

Spec == Init /\ [][Next]_vars

\* The deterministic variants, with a caller patient enough to see the pool
\* cycle twice
LongPulls == 2 * MaxPool * MaxLen + 1
InitRoundRobin == InitWith("RoundRobinMux", LongPulls)
SpecRoundRobin == InitRoundRobin /\ [][Next]_vars
InitChain == InitWith("ChainMux", LongPulls)
SpecChain == InitChain /\ [][Next]_vars

\* The generator runs on once the caller has asked for an item, and this
\* caller goes on asking until its patience is spent.
Step == PullItem \/ PullExhausted \/ PullError \/ Exit \/ Resume
FairChain == InitChain /\ [][Next]_vars /\ WF_vars(Step)

\* The random variants
InitPoisson == InitWith("PoissonMux", MaxPulls)
SpecPoisson == InitPoisson /\ [][Next]_vars
FairPoisson == InitPoisson /\ [][Next]_vars /\ WF_vars(Step)

\* All four variants, the generator running on to its next stop
FairSpec == Init /\ [][Next]_vars /\ WF_vars(Step)

\* PoissonMux over the wider pool
InitWide == InitWith("WidePoissonMux", MaxPulls)
SpecWide == InitWide /\ [][Next]_vars

\* ----------------------------------------------------------------- claims
Pool == DOMAIN self.streamers
Slots == DOMAIN self.streams_

\* member m yields zero items on every open
EmptyMember(m) == self.streamers[m].len = 0 /\ ~self.streamers[m].fails

\* slot i holds an iterator
Filled(i) == self.streams_[i] # NoStream

\* C1: with prune_empty_streams, once a pool member that yields nothing on
\* every open has been pruned, no variant or mode opens it again: it never
\* reappears in an active slot.
C1_PrunedNeverReopened ==
    active /\ self.prune_empty_streams =>
        \A m \in Pool : EmptyMember(m) => ~self.reopened_[m]

\* C2: while the mux is active, a pool member whose valid_streams_ entry is
\* False has distribution entry 0.
C2_InvalidHasNoMass ==
    active =>
        \A m \in Pool : ~self.valid_streams_[m] => self.distribution_[m] = Zero

\* C3 as claimed: when pulling from the chosen slot raises something else
\* than end-of-stream, the mux's state is left as it was before the pull and
\* the output sequence can still be pulled.
C3_ErrorLeavesStateIntact ==
    [][raised' = "ProducerError" => self' = self /\ pc' = "loop"]_vars

\* C3, amended: when pulling from the chosen slot raises something else than
\* end-of-stream, the error reaches the caller, the output sequence is
\* finished and the mux has been deactivated: slots, bindings, counts, slot
\* weights and normalization scalar are cleared and the cursor is unset;
\* only the distribution and the validity mask are those of before the pull.
C3_ErrorDeactivates ==
    [][raised' = "ProducerError" =>
          /\ pc = "loop" /\ pc' = "failed"
          /\ item' = NoItem
          /\ self'.streams_ = None
          /\ self'.stream_idxs_ = None
          /\ self'.stream_counts_ = None
          /\ self'.stream_weights_ = None
          /\ self'.weight_norm_ = None
          /\ self'.active_index_ = NoneInt
          /\ self'.distribution_ = self.distribution_
          /\ self'.valid_streams_ = self.valid_streams_]_vars

\* a producer's error has reached the caller of a mux that kept a cursor
C3_Witness ==
    /\ pc = "failed"
    /\ raised = "ProducerError"
    /\ self.cls = "RoundRobinMux"
    /\ ~active

\* every pool member yields at least one item per open and none raises
AllNonEmpty == \A m \in Pool : self.streamers[m].len > 0 /\ ~self.streamers[m].fails
\* every pool member yields exactly len items per open and none raises
AllOfLength(len) ==
    \A m \in Pool : self.streamers[m].len = len /\ ~self.streamers[m].fails
SameLengths == \E len \in 1..MaxLen : AllOfLength(len)

\* C4 as claimed: over non-empty finite producers of any lengths, the j-th
\* item a RoundRobinMux emits (0-based) comes from pool member j mod n.
C4_StrictOrderAnyLengths ==
    self.cls = "RoundRobinMux" /\ pc = "yielded" /\ AllNonEmpty =>
        item[1] = n % self.n_streams

\* C4, amended: over non-empty finite producers of one common length, the
\* j-th item a RoundRobinMux emits (0-based) comes from pool member j mod n.
C4_StrictOrderEqualLengths ==
    self.cls = "RoundRobinMux" /\ pc = "yielded" /\ SameLengths =>
        item[1] = n % self.n_streams

\* a second round over two producers of two items each has begun
C4_Witness ==
    /\ self.cls = "RoundRobinMux" /\ pc = "yielded"
    /\ self.n_streams = 2 /\ AllOfLength(2)
    /\ n = 5 /\ item = <<1, 0>>

\* the items of pool members m, m+1, ... in pool order, each <<member, position>>
RECURSIVE ItemsFrom(_, _)
ItemsFrom(streamers, m) ==
    IF m >= Len0(streamers) THEN <<>>
    ELSE [p \in 1..streamers[m].len |-> <<m, p - 1>>] \o ItemsFrom(streamers, m + 1)
\* the concatenation of the producers' item sequences in pool order
ChainItems == ItemsFrom(self.streamers, 0)
NoneFails == \A m \in Pool : ~self.streamers[m].fails

\* C5: a ChainMux in exhaustive mode, iterated without an item budget over
\* finite producers and pulled to completion, emits as its j-th item the
\* j-th item of the concatenation of the producers in pool order, returns
\* only once all of them are out and every member has been opened exactly
\* once, and does return.
ChainExhaustive ==
    /\ self.cls = "ChainMux" /\ self.mode = "exhaustive"
    /\ NoneFails /\ max_iter = Inf
C5_ChainConcatenates ==
    /\ [][ChainExhaustive =>
             /\ pc' = "yielded" =>
                   /\ n < Len(ChainItems)
                   /\ item' = ChainItems[n + 1]
             /\ pc' = "done" =>
                   /\ pc = "loop"
                   /\ n = Len(ChainItems)
                   /\ \A m \in Pool : self'.opens_[m] = 1]_vars
    /\ [](ChainExhaustive /\ pc \in {"loop", "yielded"} =>
             <>(pc \in {"done", "closed"}))

\* the last item of two producers of two items each is out
C5_Witness ==
    /\ ChainExhaustive /\ pc = "yielded"
    /\ self.n_streams = 2 /\ AllOfLength(2)
    /\ n = 3 /\ item = <<1, 1>>

\* C6: a ChainMux in with_replacement mode over finite producers, at least
\* one of them non-empty, iterated with max_iter = m, emits as its j-th item
\* the j-th item of the endless repetition of the concatenation of the
\* producers in pool order, returns only once m items are out, and does
\* return.
ChainReplays ==
    /\ self.cls = "ChainMux" /\ self.mode = "with_replacement"
    /\ NoneFails /\ Len(ChainItems) > 0 /\ max_iter \in Nat
C6_ChainReplaysPool ==
    /\ [][ChainReplays =>
             /\ pc' = "yielded" =>
                   item' = ChainItems[(n % Len(ChainItems)) + 1]
             /\ pc' = "done" => pc = "loop" /\ n = max_iter]_vars
    /\ [](ChainReplays /\ pc \in {"loop", "yielded"} =>
             <>(pc \in {"done", "closed"}))

\* the pool of two producers of two items each is in its second replay
C6_Witness ==
    /\ ChainReplays /\ pc = "yielded"
    /\ self.n_streams = 2 /\ AllOfLength(2)
    /\ max_iter = 8 /\ n = 7 /\ item = <<1, 1>>

\* C7: a RoundRobinMux over n producers of one item each, iterated with
\* max_iter = m, emits as its j-th item (0-based) the item of pool member
\* j mod n, returns only once m items are out, and keeps slot i on pool
\* member i, reopening it there when it is exhausted.
RoundRobinSingles ==
    self.cls = "RoundRobinMux" /\ AllOfLength(1) /\ max_iter \in Nat
C7_RoundRobinSingles ==
    [][RoundRobinSingles =>
          /\ pc' = "yielded" => item' = <<n % self.n_streams, 0>>
          /\ pc' = "done" => pc = "loop" /\ n = max_iter
          /\ pc' \in {"loop", "yielded"} =>
                \A i \in Arange(self.n_streams) :
                    /\ self'.stream_idxs_[i] = i
                    /\ self'.streams_[i].src = i]_vars

\* both single-item producers have been reopened twice
C7_Witness ==
    /\ RoundRobinSingles /\ pc = "yielded"
    /\ self.n_streams = 2
    /\ max_iter = 6 /\ n = 5 /\ item = <<1, 0>>

\* every pool member yields zero items on every open
AllEmpty == \A m \in Pool : EmptyMember(m)

\* C8: over a pool whose members all yield zero items on every open, with
\* prune_empty_streams, iterate() without an item budget emits nothing and
\* returns, whatever the variant, the mode and k.
C8_AllEmptyPoolTerminates ==
    /\ [](self.prune_empty_streams /\ AllEmpty => pc # "yielded")
    /\ [](/\ self.prune_empty_streams /\ AllEmpty
          /\ pc = "loop" /\ max_iter = Inf
          => <>(pc = "done"))

SingleActive == IsPoisson(self) /\ self.mode = "single_active" /\ active

\* C9: while a PoissonMux in single_active mode is active, no pool member
\* is bound to two filled slots, and a member bound to a filled slot has
\* distribution entry 0.
C9_SingleActiveOncePerMember ==
    SingleActive =>
        /\ \A i, j \in Slots :
               Filled(i) /\ Filled(j) /\ i # j =>
                   self.stream_idxs_[i] # self.stream_idxs_[j]
        /\ \A i \in Slots :
               Filled(i) => self.distribution_[self.stream_idxs_[i]] = Zero

\* both slots over a pool of two are filled and a member has been opened again
C9_Witness ==
    /\ SingleActive /\ self.cls = "PoissonMux" /\ pc = "loop"
    /\ self.k = 2 /\ self.n_streams = 2
    /\ Filled(0) /\ Filled(1)
    /\ \E m \in Pool : self.opens_[m] = 2

ShuffledActive == self.cls = "ShuffledMux" /\ active

\* C10: while a ShuffledMux is active its slot bindings are a permutation
\* of the pool, every slot holds an iterator over the member it is bound to
\* and carries that member's weight (no slot is retired), and a pull that
\* finds a slot's iterator exhausted leaves every binding as it was and
\* puts a fresh iterator over the same member in that slot.
C10_ShuffledKeepsPermutation ==
    /\ [](ShuffledActive =>
             /\ Cardinality(Slots) = Cardinality(Pool)
             /\ \A m \in Pool : \E i \in Slots : self.stream_idxs_[i] = m
             /\ \A i \in Slots :
                    /\ Filled(i)
                    /\ self.streams_[i].src = self.stream_idxs_[i]
                    /\ self.stream_weights_[i] =
                           self.weights[self.stream_idxs_[i]])
    /\ [][ShuffledActive /\ pc = "loop" /\ pc' = "loop" =>
             /\ self'.stream_idxs_ = self.stream_idxs_
             /\ \E i \in Slots :
                    /\ self.streams_[i].pos >= self.streams_[i].end
                    /\ self'.streams_[i].src = self.streams_[i].src
                    /\ self'.streams_[i].pos = 0
                    /\ self'.streams_[i].id # self.streams_[i].id
                    /\ self'.stream_counts_[i] = 0
                    /\ \A j \in Slots \ {i} :
                           self'.streams_[j] = self.streams_[j]]_vars

\* a member of a ShuffledMux over two producers has been reopened in place
C10_Witness ==
    /\ ShuffledActive /\ pc = "loop"
    /\ self.n_streams = 2
    /\ \E m \in Pool : self.opens_[m] = 2 /\ self.streamers[m].len > 0

\* the caller has stopped asking: it holds the generator at a yield and has
\* no patience left
CallerStopped == pc = "yielded" /\ n + 1 >= pulls
\* the generator has returned, raised, or been closed
Ended == pc \in {"done", "closed", "failed"}

PoissonExhaustive == self.cls = "PoissonMux" /\ self.mode = "exhaustive"

\* C11: in PoissonMux exhaustive mode an activation opens every pool member
\* at most once (so it fills slots at most n times and never reopens a
\* member it has exhausted), and over finite producers iterate() without an
\* item budget returns unless the caller stops pulling first.
C11_ExhaustiveOpensOnce ==
    /\ [](PoissonExhaustive =>
             \A m \in Pool : self.opens_ # None => self.opens_[m] <= 1)
    /\ [](PoissonExhaustive /\ pc = "loop" /\ max_iter = Inf =>
             <>(Ended \/ CallerStopped))

\* an exhaustive PoissonMux with one slot has run through both its members
C11_Witness ==
    /\ PoissonExhaustive /\ pc = "done"
    /\ self.k = 1 /\ self.n_streams = 2 /\ AllNonEmpty
    /\ \A m \in Pool : self.opens_[m] = 1

\* a PoissonMux in with_replacement mode with uniform (default) weights over
\* producers none of which raises and one of which is not empty
PoissonReplaces ==
    /\ self.cls = "PoissonMux" /\ self.mode = "with_replacement"
    /\ \A i, j \in Pool : self.weights[i] = self.weights[j]
    /\ NoneFails /\ \E m \in Pool : self.streamers[m].len > 0
\* the same with rate = None, k = 1 and one member of one item
SingleLoop ==
    /\ PoissonReplaces /\ self.rate = "None" /\ self.k = 1
    /\ self.n_streams = 1 /\ AllOfLength(1)

\* C12: a PoissonMux in with_replacement mode with default weights and a
\* non-empty member keeps its normalization scalar positive while active,
\* never returns on its own without an item budget, and with max_iter = m
\* returns only once m items are out; with rate = None, k = 1 and a single
\* member of one item, every item is that member's, every exhaustion puts a
\* fresh iterator over it in the slot, and iterate(max_iter = m) does return.
C12_WithReplacementGoesOn ==
    /\ [](PoissonReplaces /\ active /\ pc \in {"loop", "yielded"} =>
             RPos(self.weight_norm_))
    /\ [][PoissonReplaces =>
             /\ max_iter = Inf => pc' # "done"
             /\ max_iter \in Nat /\ pc' = "done" => pc = "loop" /\ n = max_iter]_vars
    /\ [][SingleLoop =>
             /\ pc' = "yielded" => item' = <<0, 0>>
             /\ pc = "loop" /\ pc' = "loop" =>
                   /\ self'.streams_[0].src = 0
                   /\ self'.streams_[0].pos = 0
                   /\ self'.streams_[0].id # self.streams_[0].id]_vars
    /\ [](SingleLoop /\ pc = "loop" /\ max_iter \in Nat =>
             <>(pc \in {"done", "closed"}))

\* the single one-item member has given its third item, two reopenings on
C12_Witness ==
    /\ SingleLoop /\ pc = "yielded"
    /\ max_iter = Inf /\ n = 2 /\ item = <<0, 0>>
    /\ self.opens_[0] = 2

\* C13: under iterate(max_iter = m), n counts the items emitted (a yield
\* comes with n < m, n grows by one when the generator resumes after it and
\* stays as it is on a pull that hits end-of-stream), and once n = m the
\* only step of the generator is its return: no slot is chosen, no producer
\* pulled, the mux is only deactivated.
C13_AtMostMaxIter ==
    /\ [](max_iter \in Nat =>
             /\ pc = "yielded" => n < max_iter
             /\ pc = "loop" => n <= max_iter)
    /\ [][/\ pc' = "yielded" => pc = "loop" /\ n' = n
          /\ pc = "yielded" /\ pc' = "loop" => n' = n + 1
          /\ pc = "loop" /\ pc' = "loop" => n' = n
          /\ max_iter \in Nat /\ pc = "loop" /\ n >= max_iter =>
                pc' = "done" /\ self' = deactivate(self)]_vars

\* the budget of two items is spent while the mux could still go on
C13_Witness ==
    /\ pc = "loop" /\ max_iter = 2 /\ n = 2
    /\ RPos(self.weight_norm_) /\ AnyTrue(self.valid_streams_)
    /\ \E i \in Slots : self.streams_[i].pos < self.streams_[i].end

\* C14: no PoissonMux and no ChainMux whose mode is outside the class's
\* allowed set is ever iterated: the constructor has refused it.
C14_InvalidModeRejected ==
    pc \in {"ready", "loop", "yielded", "done", "closed", "failed"} =>
        /\ self.cls = "PoissonMux" => self.mode \in PoissonModes
        /\ self.cls = "ChainMux" => self.mode \in ChainModes

\* the constructor call a has an empty pool, a weights vector of another
\* length than the pool or without a positive entry, or a random_state that
\* is not None, an int or a RandomState
BadPoolWeightsOrRandomState(a) ==
    \/ Len0(a.streamers) = 0
    \/ a.weights # None /\ Len0(a.weights) # Len0(a.streamers)
    \/ a.weights # None /\ ~\E i \in DOMAIN a.weights : a.weights[i] > 0
    \/ a.random_state \notin {"None", "int", "RandomState"}

\* C15: every constructor call with an empty pool, a weights vector of the
\* wrong length or without a positive entry, or an invalid random_state
\* raises PescadorError; after a PescadorError there is no mux and no
\* further step; a mux that was constructed has a non-empty pool and
\* weights of the pool's length that sum to 1.
C15_BadArgumentsRefused ==
    /\ [](pc = "new" =>
             \A a \in Calls :
                 BadPoolWeightsOrRandomState(a) => New(a).error # "")
    /\ [](pc = "config_error" =>
             /\ raised = "PescadorError" /\ self = Blank
             /\ BadPoolWeightsOrRandomState(args) \/ args.mode = "bogus")
    /\ [][pc # "config_error"]_vars
    /\ [](pc \notin {"new", "config_error"} =>
             /\ self.n_streams > 0
             /\ Len0(self.weights) = self.n_streams
             /\ npSum(self.weights) = One)

\* weights [1, 2] have been stored as [1/3, 2/3]
C15_Witness ==
    /\ pc = "ready" /\ self.cls = "PoissonMux" /\ self.n_streams = 2
    /\ self.weights[0] = Rat[1, 3] /\ self.weights[1] = Rat[2, 3]

\* the mux holds no slot producers, bindings, counts, slot weights or
\* normalization scalar
Cleared ==
    /\ self.streams_ = None
    /\ self.stream_idxs_ = None
    /\ self.stream_counts_ = None
    /\ self.stream_weights_ = None
    /\ self.weight_norm_ = None

\* C16: however an iterate() sequence ends (the loop finishing on a zero
\* normalization scalar, an all-false mask or a spent item budget, the
\* caller closing it at a yield, a producer raising), the step that ends it
\* deactivates the mux, and an ended sequence leaves a mux that holds no
\* slot producers.
C16_EveryEndDeactivates ==
    /\ [](Ended => Cleared)
    /\ [][(pc \in {"loop", "yielded"}) /\ pc' \notin {"loop", "yielded"} =>
             /\ pc' \in {"done", "closed", "failed"}
             /\ self.streams_ # None
             /\ self'.streams_ = None
             /\ pc' = "closed" => pc = "yielded" /\ self' = deactivate(self)
             /\ pc' = "failed" =>
                   raised' \in {"ProducerError", "TypeError"}]_vars

\* the caller has closed the sequence of an active mux at a yield
C16_Witness ==
    /\ pc = "closed" /\ Cleared
    /\ \E m \in Pool : self.opens_[m] >= 1 /\ self.streamers[m].len = 2

\* deactivate() has run and activate() has not run since
Deactivated == pc \in {"ready", "done", "closed", "failed"}

\* C17 as claimed: after deactivate() all per-activation state is gone
\* (distribution, validity mask, slots, slot counts, normalization scalar),
\* and a second deactivate() changes nothing.
C17_DeactivateDiscardsAll ==
    Deactivated =>
        /\ Cleared
        /\ self.distribution_ = None
        /\ self.valid_streams_ = None
        /\ deactivate(self) = self

\* C17, amended: after deactivate() the mux holds no slots, bindings, slot
\* counts, slot weights or normalization scalar and its cursor is unset,
\* and a second deactivate() changes nothing; the distribution and the
\* validity mask are not touched by deactivate(): after an activation they
\* stay as that activation left them.
C17_DeactivateClearsSlots ==
    /\ Deactivated =>
          /\ Cleared
          /\ self.active_index_ = NoneInt
          /\ deactivate(self) = self
    /\ pc \in {"done", "closed", "failed"} =>
          /\ DOMAIN self.distribution_ = Pool
          /\ DOMAIN self.valid_streams_ = Pool
    /\ active =>
          /\ deactivate(self).distribution_ = self.distribution_
          /\ deactivate(self).valid_streams_ = self.valid_streams_
          /\ deactivate(deactivate(self)) = deactivate(self)

\* a deactivated mux still carries the mask of a pruned member
C17_Witness ==
    /\ pc = "done" /\ Cleared
    /\ \E m \in Pool : ~self.valid_streams_[m]
    /\ \E m \in Pool : RPos(self.distribution_[m])

\* the step is iterate's entry: activate() has just run on the mux self'
Activation == pc \notin {"loop", "yielded"} /\ pc' = "loop"

DistSumsToOne(s) == npSum(s.distribution_) = One
DistAllZero(s) == \A m \in DOMAIN s.distribution_ : s.distribution_[m] = Zero
NoSlotFilled(s) == \A i \in DOMAIN s.streams_ : s.streams_[i] = NoStream
EveryMemberBound(s) ==
    \A m \in DOMAIN s.streamers :
        \E i \in DOMAIN s.streams_ : s.streams_[i].src = m
\* the variants and modes that zero a member out when they open it
Zeroing(s) ==
    (IsPoisson(s) \/ s.cls = "ChainMux") /\ s.mode # "with_replacement"

\* C18 as claimed: right after activate() the distribution sums to 1, or it
\* is all-zero and then no slot could be filled.
C18_ActivatedSumsToOne ==
    [][Activation =>
          \/ DistSumsToOne(self')
          \/ DistAllZero(self') /\ NoSlotFilled(self')]_vars

\* C18, amended: right after activate() the distribution sums to 1 or is
\* all-zero; it is all-zero exactly when the variant zeroes members out on
\* opening (PoissonMux and ShuffledMux in single_active or exhaustive mode,
\* ChainMux outside with_replacement mode) and every pool member has been
\* bound to a slot, and then slots are filled.
C18_ActivatedSumsToOneOrAllBound ==
    [][Activation =>
          /\ DistSumsToOne(self') \/ DistAllZero(self')
          /\ DistAllZero(self') <=> Zeroing(self') /\ EveryMemberBound(self')
          /\ ~NoSlotFilled(self')]_vars

\* an exhaustive PoissonMux with one slot over two members has just been
\* activated: the member it did not open holds all the mass
C18_Witness ==
    /\ pc = "loop" /\ n = 0
    /\ self.cls = "PoissonMux" /\ self.mode = "exhaustive"
    /\ self.k = 1 /\ self.n_streams = 2
    /\ self.streams_[0].id = 1 /\ self.streams_[0].pos = 0
    /\ \E m \in Pool :
          /\ self.distribution_[m] = One
          /\ self.opens_[m] = 0
          /\ self.opens_[1 - m] = 1

\* C19: whenever the caller can observe an active mux (after activate, at a
\* yield, after a handled end-of-stream), its distribution is all-zero or
\* sums to 1, in every variant and mode, pruning and revival included.
C19_DistributionNormalized ==
    active /\ pc \in {"loop", "yielded"} =>
        DistSumsToOne(self) \/ DistAllZero(self)

\* a single_active PoissonMux has pruned a member, revived it and refilled
\* the slot, and some member holds mass
C19_Witness ==
    /\ SingleActive /\ self.cls = "PoissonMux" /\ pc = "loop"
    /\ self.prune_empty_streams /\ self.n_streams = 2
    /\ \E m \in Pool : ~self.valid_streams_[m] /\ self.reopened_[m]
    /\ \E m \in Pool : RPos(self.distribution_[m])
    /\ DistSumsToOne(self)

\* the legacy flags that the documentation maps to a PoissonMux mode
WithReplacementOf(mode) == mode = "with_replacement"
ReviveOf(mode) == mode = "single_active"

\* the Mux call that corresponds to the PoissonMux call a
MuxCall(a) ==
    [streamers |-> a.streamers, k |-> a.k, rate |-> a.rate,
     weights |-> a.weights, with_replacement |-> WithReplacementOf(a.mode),
     prune_empty_streams |-> a.prune_empty_streams,
     revive |-> ReviveOf(a.mode), random_state |-> a.random_state]

\* the Mux object in the state of the PoissonMux object s
MuxOf(s) ==
    [f \in DOMAIN s \cup MuxFlags |->
        CASE f = "cls" -> "Mux"
          [] f = "mode" -> "None"
          [] f = "with_replacement" -> WithReplacementOf(s.mode)
          [] f = "revive" -> ReviveOf(s.mode)
          [] OTHER -> s[f]]

\* the PoissonMux object in the state of the Mux object mx
PoissonOf(mx) ==
    [f \in DOMAIN mx \ MuxFlags |->
        CASE f = "cls" -> "PoissonMux"
          [] f = "mode" -> IF mx.with_replacement THEN "with_replacement"
                           ELSE IF mx.revive THEN "single_active"
                           ELSE "exhaustive"
          [] OTHER -> mx[f]]

\* slot i of s holds an iterator that has reached its end without raising
AtEnd(s, i) ==
    /\ s.streams_[i] # NoStream
    /\ s.streams_[i].pos >= s.streams_[i].end
    /\ ~s.streams_[i].raises

\* C20: the legacy Mux and PoissonMux are equivalent under the documented
\* mapping of flags to modes: the corresponding constructor calls raise
\* the same error or build corresponding objects, and from corresponding
\* states activate, deactivate, the choice of the slot to sample and the
\* handling of an exhausted slot have, draw for draw, corresponding results
\* (distribution, mask, bindings, slot weights, iterators).
C20_MuxIsPoissonMux ==
    /\ pc = "new" =>
          \A a \in PoissonCalls :
              a.mode \in PoissonModes =>
                  LET r == Mux_init(MuxCall(a))
                      q == PoissonMux_init(a)
                  IN /\ r.error = q.error
                     /\ r.error = "" => PoissonOf(r.self) = q.self
    /\ self.cls = "PoissonMux" =>
          /\ PoissonOf(MuxOf(self)) = self
          /\ PoissonOf(Mux_deactivate(MuxOf(self))) = deactivate(self)
    /\ self.cls = "PoissonMux" /\ Deactivated =>
          {PoissonOf(s) : s \in Mux_activate(MuxOf(self))} = activate(self)
    /\ self.cls = "PoissonMux" /\ pc = "loop" /\ LoopCond =>
          /\ Mux_next_sample_index(MuxOf(self)) =
                 {r.ret : r \in _next_sample_index(self)}
          /\ \A r \in _next_sample_index(self) : r.self = self
          /\ \A i \in Slots :
                 AtEnd(self, i) =>
                     {PoissonOf(s) : s \in Mux_StreamExhausted(MuxOf(self), i)}
                         = StreamExhausted(self, i)

\* a single_active PoissonMux stands at an exhausted slot whose member is
\* pruned and revived by the next pull, in the legacy Mux as well
C20_Witness ==
    /\ self.cls = "PoissonMux" /\ self.mode = "single_active"
    /\ pc = "loop" /\ LoopCond
    /\ self.prune_empty_streams /\ self.k = 1 /\ self.n_streams = 2
    /\ AtEnd(self, 0) /\ self.stream_counts_[0] = 0
    /\ \E s \in Mux_StreamExhausted(MuxOf(self), 0) :
          /\ s.cls = "Mux" /\ s.revive
          /\ \E m \in Pool : s.reopened_[m]

\* the mux s as its constructor left it: no distribution, no mask, no slots
Fresh(s) ==
    [deactivate(s) EXCEPT !.distribution_ = None, !.valid_streams_ = None,
                          !.opens_ = None, !.reopened_ = None]
\* the distribution entries of the members that s has not bound to a slot
\* are equal
UniformOverUnbound(s) ==
    \A l, m \in DOMAIN s.streamers :
        (\A i \in DOMAIN s.streams_ :
             s.streams_[i].src # l /\ s.streams_[i].src # m)
        => s.distribution_[l] = s.distribution_[m]
\* every distribution entry of s is 1/n
Uniform(s) ==
    \A m \in DOMAIN s.streamers : s.distribution_[m] = Rat[1, s.n_streams]

\* C21: every iterate() activates the mux afresh: the outcomes of activate()
\* on a mux that has been active before are those of activate() on the mux
\* as constructed, whatever was pruned, zeroed or exhausted before; the
\* mask is all-true, the slot counts are 0, the distribution is the uniform
\* one (less the members that activation itself has zeroed out), a ChainMux
\* opens pool member 0 first and a RoundRobinMux has its cursor at 0.
C21_ActivationIsFresh ==
    [][Activation =>
          /\ activate(self) = activate(Fresh(self))
          /\ self' \in activate(Fresh(self))
          /\ \A m \in Pool : self'.valid_streams_[m]
          /\ \A i \in DOMAIN self'.streams_ : self'.stream_counts_[i] = 0
          /\ UniformOverUnbound(self')
          /\ ~Zeroing(self') => Uniform(self')
          /\ self.cls = "ChainMux" =>
                /\ self'.active_index_ = 0
                /\ self'.stream_idxs_[0] = 0
                /\ self'.streams_[0].src = 0 /\ self'.streams_[0].pos = 0
          /\ self.cls = "RoundRobinMux" => self'.active_index_ = 0]_vars

\* an iterate() has ended with a member pruned and mass taken from the
\* uniform distribution; the next activation starts with an all-true mask
C21_Witness ==
    /\ pc = "done"
    /\ \E m \in Pool : ~self.valid_streams_[m]
    /\ ~Uniform(self)
    /\ \A s \in activate(self) :
          /\ \A m \in Pool : s.valid_streams_[m]
          /\ s \in activate(Fresh(self))

\* the mux at the call of the exhaustion hook for slot i: pruning is done
BeforeHook(i) == Prune(self, i)
\* the mux at the hook's return
AfterHook(i) == PoissonMux_on_stream_exhausted(BeforeHook(i), i)

StaticWeight(i) == self.weights[self.stream_idxs_[i]]
\* slot i can have been retired: its iterator is at its end and the
\* distribution has no mass for a refill
Retirable(i) ==
    /\ Filled(i)
    /\ self.streams_[i].pos >= self.streams_[i].end
    /\ DistAllZero(self)

\* C23: at every loop head and yield of an active mux the normalization
\* scalar is the sum of the slot weights; an unfilled slot has weight 0, a
\* filled slot has the static weight of the member it is bound to, or 0
\* once it has been retired (which takes an iterator at its end and a
\* distribution without mass).  A slot is chosen and pulled only while the
\* scalar is positive, and with the scalar at 0 the only step is the return.
C23_NormIsSumOfSlotWeights ==
    /\ [](active /\ pc \in {"loop", "yielded"} =>
             /\ self.weight_norm_ = npSum(self.stream_weights_)
             /\ \A i \in Slots :
                    /\ ~Filled(i) => self.stream_weights_[i] = Zero
                    /\ Filled(i) =>
                          \/ self.stream_weights_[i] = StaticWeight(i)
                          \/ self.stream_weights_[i] = Zero /\ Retirable(i))
    /\ [][(pc = "loop") =>
             /\ pc' \in {"yielded", "loop", "failed"} =>
                   RPos(self.weight_norm_)
             /\ ~RPos(self.weight_norm_) =>
                   pc' = "done" /\ self' = deactivate(self)]_vars

\* an exhaustive PoissonMux over weights 1/3 and 2/3 has retired one of its
\* two slots and goes on with the other
C23_Witness ==
    /\ PoissonExhaustive /\ pc = "loop"
    /\ self.k = 2 /\ self.n_streams = 2
    /\ self.weights[0] = Rat[1, 3]
    /\ \E i \in Slots :
          /\ Retirable(i) /\ self.stream_weights_[i] = Zero
          /\ RPos(StaticWeight(i))
    /\ RPos(self.weight_norm_) /\ RLess(self.weight_norm_, One)

RoundRobinActive == self.cls = "RoundRobinMux" /\ active
\* the slot after slot i in the round
NextInRound(i) == (i + 1) % self.n_streams

\* C24: an active RoundRobinMux has as many slots as pool members and slot
\* i is bound to member i and holds an iterator over it, after activation
\* and after every refill.  The cursor is 0 after activation; every pull
\* attempt, whether it yields, hits end-of-stream or raises, takes the slot
\* under the cursor and moves the cursor to the next slot of the round, and
\* nothing else moves it: the t-th attempt takes slot t mod n.
C24_RoundRobinBindings ==
    /\ [](RoundRobinActive =>
             /\ DOMAIN self.streams_ = Pool
             /\ self.k = self.n_streams
             /\ self.active_index_ \in Pool
             /\ \A i \in Slots :
                    /\ self.stream_idxs_[i] = i
                    /\ Filled(i) /\ self.streams_[i].src = i)
    /\ [][(self'.cls = "RoundRobinMux") =>
             /\ Activation => self'.active_index_ = 0
             /\ pc = "loop" /\ pc' = "yielded" =>
                   /\ idx' = self.active_index_
                   /\ item'[1] = self.active_index_
                   /\ self'.active_index_ = NextInRound(self.active_index_)
             /\ pc = "loop" /\ pc' = "loop" =>
                   /\ AtEnd(self, self.active_index_)
                   /\ self'.streams_[self.active_index_].id #
                          self.streams_[self.active_index_].id
                   /\ self'.streams_[self.active_index_].pos = 0
                   /\ self'.active_index_ = NextInRound(self.active_index_)
             /\ pc = "loop" /\ pc' = "failed" =>
                   self.streams_[self.active_index_].raises
             /\ pc = "yielded" /\ pc' = "loop" =>
                   self'.active_index_ = self.active_index_]_vars

\* a RoundRobinMux over two members of different lengths has reopened one
\* of them in its slot and stands with the cursor on the other slot
C24_Witness ==
    /\ RoundRobinActive /\ pc = "loop"
    /\ self.n_streams = 2
    /\ self.streamers[0].len = 1 /\ self.streamers[1].len = 2
    /\ self.opens_[0] = 2 /\ self.opens_[1] = 1
    /\ self.active_index_ = 1

\* the slots the next pass of the loop can choose
Choosable == {r.ret : r \in _next_sample_index(self)}

\* C25: from activation to the next activation the validity mask only
\* loses entries: no step but activate() sets an entry to true, and an
\* entry becomes false only in the pass of the loop whose chosen slot,
\* bound to that member, signals end-of-stream with slot count 0, with
\* prune_empty_streams set; that pass changes no other entry.  Without
\* prune_empty_streams the mask is all-true.
C25_MaskOnlyLosesEntries ==
    /\ [][(self.valid_streams_ # None) /\ ~Activation =>
             /\ self'.valid_streams_ # None
             /\ \A m \in Pool :
                    /\ self'.valid_streams_[m] => self.valid_streams_[m]
                    /\ self.valid_streams_[m] /\ ~self'.valid_streams_[m] =>
                          /\ self.prune_empty_streams
                          /\ pc = "loop" /\ LoopCond
                          /\ pc' \in {"loop", "done"}
                          /\ n' \in {n, 0}
                          /\ \E i \in Choosable :
                                 /\ AtEnd(self, i)
                                 /\ self.stream_idxs_[i] = m
                                 /\ self.stream_counts_[i] = 0
                          /\ \A l \in Pool \ {m} :
                                 self'.valid_streams_[l] =
                                     self.valid_streams_[l]]_vars
    /\ [](self.valid_streams_ # None /\ ~self.prune_empty_streams =>
             \A m \in Pool : self.valid_streams_[m])

\* an item is out and the other member has been pruned in the same
\* activation, which goes on
C25_Witness ==
    /\ active /\ pc = "loop" /\ n >= 1
    /\ self.prune_empty_streams /\ self.n_streams = 2
    /\ \E m \in Pool :
          /\ ~self.valid_streams_[m] /\ self.valid_streams_[1 - m]
          /\ self.streamers[1 - m].len = 2

\* pruning is off and every pool member yields nothing
NoPruneAllEmpty == ~self.prune_empty_streams /\ AllEmpty
\* the configurations that reopen members: PoissonMux in single_active or
\* with_replacement mode, ShuffledMux, RoundRobinMux, ChainMux in
\* with_replacement mode
Reviving ==
    \/ IsPoisson(self) /\ self.mode \in {"single_active", "with_replacement"}
    \/ self.cls = "RoundRobinMux"
    \/ self.cls = "ChainMux" /\ self.mode = "with_replacement"
\* PoissonMux and ChainMux in exhaustive mode
ExhaustiveMode ==
    self.cls \in {"PoissonMux", "ChainMux"} /\ self.mode = "exhaustive"
AllWeightsPositive == \A m \in Pool : RPos(self.weights[m])

\* C26 as claimed: without pruning, over a pool whose members all yield
\* nothing, iterate() never leaves its loop and emits nothing in every
\* reviving or replacing configuration, and returns in exhaustive mode.
C26_EmptyPoolSpins ==
    /\ [][NoPruneAllEmpty /\ Reviving /\ pc = "loop" /\ max_iter = Inf =>
             pc' = "loop"]_vars
    /\ [](NoPruneAllEmpty /\ ExhaustiveMode /\ pc = "loop" =>
             <>(pc = "done"))

\* the reviving configurations in which every slot that is filled carries
\* a positive weight: all member weights positive, or a ShuffledMux
SpinningCase ==
    /\ NoPruneAllEmpty /\ Reviving
    /\ AllWeightsPositive \/ self.cls = "ShuffledMux"
    /\ pc = "loop" /\ max_iter # 0

\* the parity of the number of iterators the slots have held
Refills ==
    IF active
    THEN Cardinality({i \in Slots : self.streams_[i].id = 1}) % 2
    ELSE 0

\* C26, amended: without pruning, over a pool whose members all yield
\* nothing, iterate() with no item budget or a positive one never leaves its
\* loop and emits nothing, pass after pass reopening a member, in every
\* reviving or replacing configuration whose member weights are all
\* positive and in every ShuffledMux; in exhaustive mode it returns, having
\* emitted nothing.
C26_EmptyPoolSpinsOnPositiveWeights ==
    /\ [](SpinningCase => LoopCond)
    /\ [][SpinningCase =>
             /\ pc' = "loop" /\ n' = 0
             /\ \E i \in Slots :
                    /\ AtEnd(self, i)
                    /\ self'.streams_[i].id # self.streams_[i].id
                    /\ self'.streams_[i].pos = 0]_vars
    /\ [](SpinningCase /\ Refills = 0 => <>(Refills = 1))
    /\ [](SpinningCase /\ Refills = 1 => <>(Refills = 0))
    /\ [](NoPruneAllEmpty /\ ExhaustiveMode => pc # "yielded")
    /\ [](NoPruneAllEmpty /\ ExhaustiveMode /\ pc = "loop" =>
             <>(pc = "done"))

\* a single_active PoissonMux without pruning has reopened the empty
\* member of its slot a second time and is still in its loop
C26_Witness ==
    /\ SpinningCase /\ max_iter = Inf
    /\ self.cls = "PoissonMux" /\ self.mode = "single_active"
    /\ self.k = 1 /\ self.n_streams = 2
    /\ \E m \in Pool : self.opens_[m] = 2

\* C27: every slot that a pass of the loop can choose holds an iterator and
\* carries a positive weight: no pass pulls from a slot that activation
\* left unfilled or from one that has been retired, in every variant and
\* mode and for every k (k above the pool size included), so advancing the
\* chosen slot never fails for want of an iterator.
C27_ChosenSlotIsOpen ==
    /\ [](active /\ pc = "loop" /\ LoopCond =>
             \A i \in Choosable :
                 /\ i \in Slots
                 /\ Filled(i)
                 /\ self.streams_[i].src = self.stream_idxs_[i]
                 /\ RPos(self.stream_weights_[i]))
    /\ [](pc = "yielded" => Filled(idx) /\ item[1] = self.stream_idxs_[idx])
    /\ [](raised # "TypeError")

\* a single_active PoissonMux with two slots over one member has left its
\* second slot unfilled and has refilled the first after pulling it dry
C27_Witness ==
    /\ self.cls = "PoissonMux" /\ self.mode = "single_active"
    /\ pc = "loop" /\ LoopCond
    /\ self.k = 2 /\ self.n_streams = 1
    /\ ~Filled(1) /\ Filled(0)
    /\ self.opens_[0] = 2 /\ n >= 1

\* member m yields at least one item every time it is opened
Productive(m) == self.streamers[m].len >= 1

\* C28: a pool member that yields at least one item on every open keeps
\* its validity-mask entry true, in every variant and with or without
\* rate: an iterator over it yields at least one item before its end
\* (its budget is unbounded or at least 1), and at every loop head the
\* count of a filled slot is the number of items its present iterator has
\* yielded, so a slot over such a member reaches its end with a positive
\* count.
C28_ProductiveNeverPruned ==
    /\ self.valid_streams_ # None =>
          \A m \in Pool : Productive(m) => self.valid_streams_[m]
    /\ active =>
          \A i \in Slots :
              Filled(i) =>
                  /\ Productive(self.streams_[i].src) =>
                        self.streams_[i].end >= 1
                  /\ pc = "loop" =>
                        self.stream_counts_[i] = self.streams_[i].pos
                  /\ pc = "yielded" =>
                        self.stream_counts_[i] =
                            self.streams_[i].pos - (IF i = idx THEN 1 ELSE 0)

\* with rate and pruning, a member of two items has been opened twice,
\* its iterator cut to one item, while the empty member has been pruned
C28_Witness ==
    /\ active /\ pc = "loop"
    /\ self.prune_empty_streams /\ self.rate = "positive"
    /\ self.n_streams = 2
    /\ \E m \in Pool :
          /\ self.streamers[m].len = 2 /\ self.opens_[m] = 2
          /\ self.valid_streams_[m] /\ ~self.valid_streams_[1 - m]
          /\ \E i \in Slots :
                 self.streams_[i].src = m /\ self.streams_[i].end = 1

====
